---- MODULE Spec2Model ----
(***************************************************************************)
(* A model of the bintrie crate (src/src/lib.rs): a 16-way trie whose      *)
(* nodes live in an arena (`internals`), keyed by caller-supplied 4-bit    *)
(* groups.  The model follows the validated entry points `insert` and      *)
(* `get` (the assert-wrapped closures around the unchecked cores), the     *)
(* `Iter` iterator behind `items()` and the `ExploreIter` iterator behind  *)
(* `explore()`.                                                            *)
(*                                                                         *)
(* Words are WordBits wide instead of 32 (TLC integers stop at 2^31 - 1):  *)
(* the top bit of a word is the leaf tag, exactly as bit 31 is in the      *)
(* source.                                                                 *)
(*                                                                         *)
(* Variables `stored`, `consistent`, `calls`, `kout`, `lk`, `addr`,        *)
(* `yielded` and `before` are history variables: they record what the      *)
(* callers and the callbacks did, what the iterators returned and what the *)
(* arena was when the running insert was called; the program never reads   *)
(* them.                                                                   *)
(***************************************************************************)
EXTENDS Integers, Sequences, FiniteSets, Bags, TLC

\* ------------------------------------------------------------- bounds
\* Largest `depth` a trie is constructed with (new_depth).
MaxDepth == 3
\* Number of calls of insert in one behaviour.
MaxInserts == 2
\* Number of calls of insert in one behaviour of the callers that keep the
\* contract of the callbacks (ContractSpec).
MaxContractInserts == 3
\* Width of a slot word in bits (32 in the source).
WordBits == 5

\* ------------------------------------------------------------- encoding
RECURSIVE Pow2(_)
Pow2(n) == IF n = 0 THEN 1 ELSE 2 * Pow2(n - 1)

\* const HIGH: the top bit of a slot word.
HIGH == Pow2(WordBits - 1)

\* Number of slots of a node: [u32; 16].
Slots == 16

SlotIx == 0 .. (Slots - 1)

\* m & HIGH
AndHigh(m) == ((m \div HIGH) % 2) * HIGH

\* m & !HIGH
AndNotHighKeepsTag(m) == m
AndNotHigh(m) == m - AndHigh(m)

\* item | HIGH
OrHigh(it) == AndNotHigh(it) + HIGH

\* Internal::default(): sixteen empty slots.
EmptyNode == [s \in SlotIx |-> 0]

\* The arena is a Vec indexed from 0; sequences are indexed from 1.
NodeAt(ints, n) == ints[n + 1]

SlotOf(ints, n, p) == NodeAt(ints, n)[p]

SetSlotWholeNode(ints, n, p, v) ==
    [ints EXCEPT ![n + 1] = [s \in SlotIx |-> v]]
SetSlot(ints, n, p, v) == [ints EXCEPT ![n + 1] = [@ EXCEPT ![p] = v]]

\* Option<u32>
None == [some |-> FALSE, val |-> 0]
Some(v) == [some |-> TRUE, val |-> v]

\* ------------------------------------------------------------- inputs
\* The proper groups the callers' keys are made of: the lowest and the
\* highest slot index.
Groups == {0, Slots - 1}

\* What a key or lookup callback may return when called: a proper group, or
\* a value outside [0,16).
KeyOutputs == Groups \cup {Slots}

\* The items callers insert: proper items, and one with the top bit set.
ItemInputs == {0, 1, HIGH + 1}

\* The items the callers that keep the contract insert.
ProperItems == {0, 1, 2}

\* The key functions of the callers, group index -> group.
Keys(d) == [0 .. (d - 1) -> Groups]

\* What the key closure K returns for group g: K's group, or (a closure is
\* free to) a value outside [0,16).
KeyReturns(K, g) == {K[g], Slots}

\* Marks "lookup was not called in this step".
NoCall == -1

VARIABLES
    internals,   \* BinTrie.internals: the arena, node 0 the root
    depth,       \* BinTrie.depth
    pc,          \* "idle", "loop", "last", "get", "items", "explore", "ret", "ub"
    item,        \* insert: the item being inserted
    key,         \* insert: the key callback, as the function group -> group
    index,       \* insert, get: the local `index`
    i,           \* insert, get: the loop variable `i`
    ret,         \* what the last call returned
    indices,     \* Iter.indices / ExploreIter.indices: the traversal stack
    heur,        \* explore: the heuristic it was called with
    stored,      \* history: bag of [item, key] of the inserts that placed a leaf
    consistent,  \* history: every lookup so far reproduced the stored key
    calls,       \* history: number of insert calls so far
    kout,        \* history: what key returned in the last step, or NoCall
    lk,          \* history: what lookup returned in the last step, or NoCall
    addr,        \* history: the slot indices the last step addressed slots with
    yielded,     \* history: the items the live iterator has returned so far
    before       \* history: the arena when the running insert was called

vars == <<internals, depth, pc, item, key, index, i, ret, indices, heur,
          stored, consistent, calls, kout, lk, addr, yielded, before>>

NoRet == [op |-> "none", panic |-> FALSE, out |-> None]
Ret(op, panic, out) == [op |-> op, panic |-> panic, out |-> out]

NoKey == <<>>

\* No explore is running.
NoHeuristic == [kind |-> "none", pred |-> {}, path |-> <<>>]

\* new_depth(depth): assert!(depth > 0); one default node.
Init ==
    /\ depth \in 1 .. MaxDepth
    /\ internals = <<EmptyNode>>
    /\ pc = "idle"
    /\ item = 0
    /\ key = NoKey
    /\ index = 0
    /\ i = 0
    /\ ret = NoRet
    /\ indices = <<>>
    /\ heur = NoHeuristic
    /\ stored = EmptyBag
    /\ consistent = TRUE
    /\ calls = 0
    /\ kout = NoCall
    /\ lk = NoCall
    /\ addr = {}
    /\ yielded = <<>>
    /\ before = <<>>

\* ------------------------------------------------------------- insert
\* assert!(out < 16) of the closures insert and get wrap around the callbacks.
CheckedUpTo16(out) == out <= Slots
Checked(out) == out < Slots

\* assert!(item & HIGH == 0)
ItemOk(it) == AndHigh(it) = 0

\* The keys under which item value v was stored.
StoredKeys(v) == {r.key : r \in {s \in BagToSet(stored) : s.item = v}}

\* The lookup callback reproduces the stored key of v at group g (asked of
\* the outputs that pass the assertion: the others end the call unused).
LookupAgrees(v, g, out) == \A k \in StoredKeys(v) : k[g] = out

\* A call ends (returns or panics): the result stays visible until Return.
EndCall(r) ==
    /\ pc' = "ret"
    /\ ret' = r

\* insert(item, key, lookup): the assertion on the item, then the entry to
\* insert_unchecked (let mut index = 0; for i in 0..self.depth - 1).  The
\* lookup callback is a function of the item alone, so the callers never
\* insert one item value under two keys.
InsertCall(it, K) ==
    /\ pc = "idle"
    /\ StoredKeys(it) \subseteq {K}
    /\ calls' = calls + 1
    /\ before' = internals
    /\ item' = it
    /\ key' = K
    /\ index' = 0
    /\ i' = 0
    /\ IF ~ItemOk(it)
       THEN EndCall(Ret("insert", TRUE, None))
       ELSE /\ pc' = IF 0 < depth - 1 THEN "loop" ELSE "last"
            /\ ret' = NoRet
    /\ UNCHANGED <<internals, depth, indices, heur, stored, consistent, kout,
                   lk, addr, yielded>>

\* let new_index = self.internals.len() as u32
NewIndexBeforeLast(ints) == Len(ints) - 1
NewIndexAfterPush(ints) == Len(ints) + 1
NewIndexFixed(ints) == 1
NewIndex(ints) == Len(ints)

\* let mut new_internal = Internal::default(); the displaced leaf m goes to
\* the slot lookup returned.
NewInternalWithoutLeaf(m, out) == EmptyNode
NewInternal(m, out) == [EmptyNode EXCEPT ![out] = m]

\* self.internals.push(new_internal)
PushFront(ints, node) == <<node>> \o ints
Push(ints, node) == Append(ints, node)

\* The group the displaced leaf is looked up at: lookup(m & !HIGH, i + 1).
LookupGroupSameGroup(g) == g
LookupGroup(g) == g + 1

\* The body of `for i in 0..self.depth - 1` of insert_unchecked for one i,
\* with the assertions of the closures insert wraps around key and lookup.
\* `position` is what key(i) returned and `out` what lookup returned (it is
\* only called in the leaf branch).  tag: "panic" an assertion failed, "ub"
\* a slot was addressed out of bounds, "placed" the item was stored and the
\* call returned, "next" the loop goes on.
LoopBodyWritesBeforeLookup(ints, idx, it, position, out) ==
    IF ~Checked(position)
    THEN [tag |-> "panic", ints |-> ints, index |-> idx, addr |-> {}]
    ELSE IF position \notin SlotIx
    THEN [tag |-> "ub", ints |-> ints, index |-> idx, addr |-> {position}]
    ELSE
    LET m == SlotOf(ints, idx, position) IN
    IF m = 0
    THEN [tag |-> "placed", ints |-> SetSlot(ints, idx, position, OrHigh(it)),
          index |-> idx, addr |-> {position}]
    ELSE IF AndHigh(m) # 0
    THEN IF ~Checked(out)
         THEN [tag |-> "panic",
               ints |-> SetSlot(ints, idx, position, NewIndex(ints)),
               index |-> idx, addr |-> {position}]
         ELSE IF out \notin SlotIx
         THEN [tag |-> "ub", ints |-> ints, index |-> idx,
               addr |-> {position, out}]
         ELSE [tag |-> "next",
               ints |-> SetSlot(Push(ints, NewInternal(m, out)),
                                idx, position, NewIndex(ints)),
               index |-> NewIndex(ints), addr |-> {position, out}]
    ELSE [tag |-> "next", ints |-> ints, index |-> m, addr |-> {position}]
LoopBody(ints, idx, it, position, out) ==
    IF ~Checked(position)
    THEN [tag |-> "panic", ints |-> ints, index |-> idx, addr |-> {}]
    ELSE IF position \notin SlotIx
    THEN [tag |-> "ub", ints |-> ints, index |-> idx, addr |-> {position}]
    ELSE
    LET m == SlotOf(ints, idx, position) IN
    IF m = 0
    THEN \* Empty node encountered.
         [tag |-> "placed", ints |-> SetSlot(ints, idx, position, OrHigh(it)),
          index |-> idx, addr |-> {position}]
    ELSE IF AndHigh(m) # 0
    THEN \* Leaf node encountered.
         IF ~Checked(out)
         THEN [tag |-> "panic", ints |-> ints, index |-> idx,
               addr |-> {position}]
         ELSE IF out \notin SlotIx
         THEN [tag |-> "ub", ints |-> ints, index |-> idx,
               addr |-> {position, out}]
         ELSE IF AndHigh(NewIndex(ints)) # 0
         THEN \* assert!(new_index & HIGH == 0)
              [tag |-> "panic", ints |-> ints, index |-> idx,
               addr |-> {position, out}]
         ELSE [tag |-> "next",
               ints |-> SetSlot(Push(ints, NewInternal(m, out)),
                                idx, position, NewIndex(ints)),
               index |-> NewIndex(ints), addr |-> {position, out}]
    ELSE \* Internal node encountered.
         [tag |-> "next", ints |-> ints, index |-> m, addr |-> {position}]

\* The iteration meets a leaf, so it calls lookup.
MeetsLeaf(ints, idx, position) ==
    /\ Checked(position)
    /\ position \in SlotIx
    /\ AndHigh(SlotOf(ints, idx, position)) # 0

\* What lookup returns when called: any output; NoCall when it is not called.
LookupReturns(ints, idx, position) ==
    IF MeetsLeaf(ints, idx, position) THEN KeyOutputs ELSE {NoCall}

Placed(it, K) == stored (+) SetToBag({[item |-> it, key |-> K]})

\* How a step of insert that ends with `tag` leaves the call.
InsertEnd(tag) ==
    /\ pc' = CASE tag = "ub" -> "ub"
               [] tag = "next" -> IF i + 1 < depth - 1 THEN "loop" ELSE "last"
               [] OTHER -> "ret"
    /\ ret' = CASE tag = "panic" -> Ret("insert", TRUE, None)
                [] tag = "placed" -> Ret("insert", FALSE, None)
                [] tag = "dropped" -> Ret("insert", FALSE, None)
                [] OTHER -> NoRet
    /\ i' = IF tag = "next" THEN i + 1 ELSE i
    /\ stored' = IF tag = "placed" THEN Placed(item, key) ELSE stored

\* One iteration of the for loop of insert_unchecked.
InsertLoop ==
    /\ pc = "loop"
    /\ \E position \in KeyReturns(key, i) :
       \E out \in LookupReturns(internals, index, position) :
          LET r == LoopBody(internals, index, item, position, out) IN
          /\ internals' = r.ints
          /\ index' = r.index
          /\ InsertEnd(r.tag)
          /\ kout' = position
          /\ lk' = out
          /\ addr' = r.addr
          /\ consistent' =
               (consistent /\
                ((out # NoCall /\ Checked(out)) =>
                   LookupAgrees(AndNotHigh(SlotOf(internals, index, position)),
                                LookupGroup(i), out)))
    /\ UNCHANGED <<depth, item, key, indices, heur, calls, yielded, before>>

\* The code after the loop: the last group, `depth - 1`, is only filled
\* when its slot is empty.  tag "dropped": the slot was taken.
LastBodyOverwrites(ints, idx, it, position) ==
    IF ~Checked(position)
    THEN [tag |-> "panic", ints |-> ints, index |-> idx, addr |-> {}]
    ELSE IF position \notin SlotIx
    THEN [tag |-> "ub", ints |-> ints, index |-> idx, addr |-> {position}]
    ELSE [tag |-> "placed", ints |-> SetSlot(ints, idx, position, OrHigh(it)),
          index |-> idx, addr |-> {position}]
LastBodySplits(ints, idx, it, position) ==
    IF ~Checked(position)
    THEN [tag |-> "panic", ints |-> ints, index |-> idx, addr |-> {}]
    ELSE IF position \notin SlotIx
    THEN [tag |-> "ub", ints |-> ints, index |-> idx, addr |-> {position}]
    ELSE IF SlotOf(ints, idx, position) = 0
    THEN [tag |-> "placed", ints |-> SetSlot(ints, idx, position, OrHigh(it)),
          index |-> idx, addr |-> {position}]
    ELSE [tag |-> "dropped",
          ints |-> SetSlot(Append(ints, [EmptyNode EXCEPT ![position] =
                                            SlotOf(ints, idx, position)]),
                           idx, position, Len(ints)),
          index |-> idx, addr |-> {position}]
LastBody(ints, idx, it, position) ==
    IF ~Checked(position)
    THEN [tag |-> "panic", ints |-> ints, index |-> idx, addr |-> {}]
    ELSE IF position \notin SlotIx
    THEN [tag |-> "ub", ints |-> ints, index |-> idx, addr |-> {position}]
    ELSE IF SlotOf(ints, idx, position) = 0
    THEN [tag |-> "placed", ints |-> SetSlot(ints, idx, position, OrHigh(it)),
          index |-> idx, addr |-> {position}]
    ELSE [tag |-> "dropped", ints |-> ints, index |-> idx, addr |-> {position}]

InsertLast ==
    /\ pc = "last"
    /\ \E position \in KeyReturns(key, depth - 1) :
          LET r == LastBody(internals, index, item, position) IN
          /\ internals' = r.ints
          /\ index' = r.index
          /\ InsertEnd(r.tag)
          /\ kout' = position
          /\ lk' = NoCall
          /\ addr' = r.addr
    /\ UNCHANGED <<depth, item, key, indices, heur, consistent, calls,
                   yielded, before>>

\* insert(it, K, lookup) as one function of the arena, for callbacks that
\* keep the contract: K returns proper groups and lookup(v, g) returns
\* L[v][g], group g of the key item v was stored under.  The loop of
\* insert_unchecked from node idx and group g on, then the final group.
RECURSIVE InsertFrom(_, _, _, _, _, _, _)
InsertFrom(ints, d, it, K, L, idx, g) ==
    IF g < d - 1
    THEN LET position == K[g]
             out == IF MeetsLeaf(ints, idx, position)
                    THEN L[AndNotHigh(SlotOf(ints, idx, position))][LookupGroup(g)]
                    ELSE NoCall
             r == LoopBody(ints, idx, it, position, out)
         IN
         IF r.tag = "next"
         THEN InsertFrom(r.ints, d, it, K, L, r.index, g + 1)
         ELSE r.ints
    ELSE LastBody(ints, idx, it, K[g]).ints

\* The arena after inserting the items of the sequence sq in order, each
\* under its key L[item], into the arena ints.
RECURSIVE InsertAll(_, _, _, _)
InsertAll(ints, d, sq, L) ==
    IF sq = <<>>
    THEN ints
    ELSE InsertAll(InsertFrom(ints, d, Head(sq), L[Head(sq)], L, 0, 0),
                   d, Tail(sq), L)

\* ------------------------------------------------------------- get
\* The body of `for i in 0..self.depth` of get_unchecked for one i, with the
\* assertion of the closure get wraps around key.  `position` is what key(i)
\* returned.  tag: "panic" the assertion failed, "ub" a slot was addressed
\* out of bounds, "return" the call returns `out`, "next" the loop goes on.
GetBody(ints, idx, position) ==
    IF ~Checked(position)
    THEN [tag |-> "panic", out |-> None, index |-> idx, addr |-> {}]
    ELSE IF position \notin SlotIx
    THEN [tag |-> "ub", out |-> None, index |-> idx, addr |-> {position}]
    ELSE
    LET m == SlotOf(ints, idx, position) IN
    IF m = 0
    THEN \* Empty node encountered.
         [tag |-> "return", out |-> None, index |-> idx, addr |-> {position}]
    ELSE IF AndHigh(m) # 0
    THEN \* Leaf node encountered.
         [tag |-> "return", out |-> Some(AndNotHigh(m)), index |-> idx,
          addr |-> {position}]
    ELSE \* Internal node encountered.
         [tag |-> "next", out |-> None, index |-> m, addr |-> {position}]

\* get(key): let mut index = 0; for i in 0..self.depth.
GetCall ==
    /\ pc = "idle"
    /\ pc' = "get"
    /\ index' = 0
    /\ i' = 0
    /\ UNCHANGED <<internals, depth, item, key, ret, indices, heur, stored,
                   consistent, calls, kout, lk, addr, yielded, before>>

\* One iteration of the for loop of get_unchecked; after the last one the
\* call returns None.
GetLoop ==
    /\ pc = "get"
    /\ \E position \in KeyOutputs :
          LET r == GetBody(internals, index, position) IN
          /\ kout' = position
          /\ addr' = r.addr
          /\ CASE r.tag = "panic" ->
                    /\ EndCall(Ret("get", TRUE, None))
                    /\ UNCHANGED <<index, i>>
               [] r.tag = "ub" ->
                    /\ pc' = "ub"
                    /\ ret' = NoRet
                    /\ UNCHANGED <<index, i>>
               [] r.tag = "return" ->
                    /\ EndCall(Ret("get", FALSE, r.out))
                    /\ UNCHANGED <<index, i>>
               [] OTHER ->
                    /\ index' = r.index
                    /\ i' = i + 1
                    /\ IF i + 1 < depth
                       THEN /\ pc' = "get"
                            /\ ret' = NoRet
                       ELSE EndCall(Ret("get", FALSE, None))
    /\ UNCHANGED <<internals, depth, item, key, indices, heur, stored,
                   consistent, calls, lk, yielded, before>>

\* get(K) as one function of the arena, for a key function K whose outputs
\* are all proper: the loop of get_unchecked from node idx and group g on.
RECURSIVE GetFrom(_, _, _, _, _)
GetFrom(ints, d, K, idx, g) ==
    IF g >= d
    THEN None
    ELSE LET r == GetBody(ints, idx, K[g]) IN
         IF r.tag = "next" THEN GetFrom(ints, d, K, r.index, g + 1) ELSE r.out

\* self.get(K) on the trie as it is.
Get(K) == GetFrom(internals, depth, K, 0, 0)

\* The number of groups get_unchecked asks key for, from node idx and group
\* g on.
RECURSIVE GetAsks(_, _, _, _, _)
GetAsks(ints, d, K, idx, g) ==
    IF g >= d
    THEN 0
    ELSE LET r == GetBody(ints, idx, K[g]) IN
         IF r.tag = "next" THEN 1 + GetAsks(ints, d, K, r.index, g + 1) ELSE 1

Consulted(K) == GetAsks(internals, depth, K, 0, 0)

\* ------------------------------------------------------------- items
\* Iter::new: the stack holds the slice iterator of the root.  A slice
\* iterator is the node it runs over and the next slot it will give.
IterNewFromSlot1 == <<[node |-> 0, pos |-> 1]>>
IterNew == <<[node |-> 0, pos |-> 0]>>

\* Iter::next: the loop, from the stack as it is (a recursive function of
\* the stack).
IterNextRestarts(ints, from) ==
    LET Walk[stack \in Seq([node : Nat, pos : Nat])] ==
            IF stack = <<>>
            THEN [stack |-> IterNew, out |-> None]
            ELSE
            LET current == stack[Len(stack)]
                rest == SubSeq(stack, 1, Len(stack) - 1)
            IN
            IF current.pos < Slots
            THEN LET n == SlotOf(ints, current.node, current.pos)
                     back == Append(rest, [current EXCEPT !.pos = @ + 1])
                 IN
                 IF n = 0
                 THEN Walk[back]
                 ELSE IF AndHigh(n) # 0
                 THEN [stack |-> back, out |-> Some(AndNotHigh(n))]
                 ELSE Walk[Append(back, [node |-> n, pos |-> 0])]
            ELSE IF rest = <<>>
            THEN [stack |-> IterNew, out |-> None]
            ELSE Walk[rest]
    IN Walk[from]

IterNextDescending(ints, from) ==
    LET Walk[stack \in Seq([node : Nat, pos : Nat])] ==
            IF stack = <<>>
            THEN [stack |-> stack, out |-> None]
            ELSE
            LET current == stack[Len(stack)]
                rest == SubSeq(stack, 1, Len(stack) - 1)
            IN
            IF current.pos < Slots
            THEN LET n == SlotOf(ints, current.node, Slots - 1 - current.pos)
                     back == Append(rest, [current EXCEPT !.pos = @ + 1])
                 IN
                 IF n = 0
                 THEN Walk[back]
                 ELSE IF AndHigh(n) # 0
                 THEN [stack |-> back, out |-> Some(AndNotHigh(n))]
                 ELSE Walk[Append(back, [node |-> n, pos |-> 0])]
            ELSE Walk[rest]
    IN Walk[from]

IterNext(ints, from) ==
    LET Walk[stack \in Seq([node : Nat, pos : Nat])] ==
            IF stack = <<>>
            THEN \* self.indices.pop()? gives None
                 [stack |-> stack, out |-> None]
            ELSE
            LET current == stack[Len(stack)]
                rest == SubSeq(stack, 1, Len(stack) - 1)
            IN
            IF current.pos < Slots
            THEN LET n == SlotOf(ints, current.node, current.pos)
                     back == Append(rest, [current EXCEPT !.pos = @ + 1])
                 IN
                 IF n = 0
                 THEN \* Empty node
                      Walk[back]
                 ELSE IF AndHigh(n) # 0
                 THEN \* Leaf node
                      [stack |-> back, out |-> Some(AndNotHigh(n))]
                 ELSE \* Internal node
                      Walk[Append(back, [node |-> n, pos |-> 0])]
            ELSE \* the slice is used up: it is not pushed back
                 Walk[rest]
    IN Walk[from]

\* items()
ItemsCall ==
    /\ pc = "idle"
    /\ pc' = "items"
    /\ indices' = IterNew
    /\ yielded' = <<>>
    /\ UNCHANGED <<internals, depth, item, key, index, i, ret, heur, stored,
                   consistent, calls, kout, lk, addr, before>>

\* One call of next() on the iterator items() returned.
ItemsNext ==
    /\ pc = "items"
    /\ LET r == IterNext(internals, indices) IN
       /\ indices' = r.stack
       /\ ret' = Ret("next", FALSE, r.out)
       /\ yielded' = IF r.out.some THEN Append(yielded, r.out.val) ELSE yielded
    /\ UNCHANGED <<internals, depth, pc, item, key, index, i, heur, stored,
                   consistent, calls, kout, lk, addr, before>>

\* Every item a full run of the iterator returns, from `stack` on.
RECURSIVE IterRun(_, _)
IterRun(ints, stack) ==
    LET r == IterNext(ints, stack) IN
    IF r.out.some THEN <<r.out.val>> \o IterRun(ints, r.stack) ELSE <<>>

\* self.items().collect() on the trie as it is.
Items == IterRun(internals, IterNew)

\* ------------------------------------------------------------- heuristics
\* (0..16).filter(P): the members of P in ascending order, from n on.
RECURSIVE FilterRange(_, _)
FilterRange(P, n) ==
    IF n >= Slots
    THEN <<>>
    ELSE (IF n \in P THEN <<n>> ELSE <<>>) \o FilterRange(P, n + 1)

\* The members of P in descending order, from n down.
RECURSIVE FilterDown(_, _)
FilterDown(P, n) ==
    IF n < 0
    THEN <<>>
    ELSE (IF n \in P THEN <<n>> ELSE <<>>) \o FilterDown(P, n - 1)

\* FnHeuristic(P) for a predicate without state, given as the set of the
\* indices it holds for.
FnHeuristic(P) == [kind |-> "fn", pred |-> P, path |-> <<>>]

\* A heuristic a caller implements: it proposes every index, highest first,
\* and its state is the path of the choices it has entered.
TraceHeuristic == [kind |-> "trace", pred |-> SlotIx, path |-> <<>>]

\* iter_unchecked: the candidates of a heuristic in the state h.
IterUnchecked(h) ==
    IF h.kind = "fn" THEN FilterRange(h.pred, 0) ELSE FilterDown(h.pred, Slots - 1)

\* enter_unchecked(choice): FnHeuristic carries the predicate on unchanged.
EnterUnchecked(h, choice) ==
    IF h.kind = "fn" THEN h ELSE [h EXCEPT !.path = Append(@, choice)]

\* The predicates explore is called with through FnHeuristic.
Preds == {{0}, {Slots - 1}, SlotIx}

\* The heuristics explore is called with.
HeuristicInputs == {FnHeuristic(P) : P \in Preds} \cup {TraceHeuristic}

\* ------------------------------------------------------------- explore
\* ExploreIter::new: the root, the heuristic and its candidates.
ExploreNewSkipsOne(h) ==
    <<[node |-> 0, h |-> h, iter |-> Tail(IterUnchecked(h))]>>
ExploreNew(h) == <<[node |-> 0, h |-> h, iter |-> IterUnchecked(h)]>>

\* The values of ExploreIter.indices: (array, heuristic, iter) per entry.
ExploreStacks ==
    Seq([node : Nat,
         h : [kind : STRING, pred : SUBSET SlotIx, path : Seq(Nat)],
         iter : Seq(Nat)])

\* ExploreIter::next: the loop, from the stack as it is.  (The loops of the
\* iterators are written as recursive functions of the stack.)
ExploreIterNextReusesIter(ints, from) ==
    LET Walk[stack \in ExploreStacks] ==
            IF stack = <<>>
            THEN [stack |-> stack, out |-> None]
            ELSE
            LET top == stack[Len(stack)]
                rest == SubSeq(stack, 1, Len(stack) - 1)
                next_heuristic == top.h
            IN
            IF top.iter # <<>>
            THEN LET choice == Head(top.iter)
                     n == SlotOf(ints, top.node, choice)
                     back == Append(rest, [top EXCEPT !.iter = Tail(@)])
                 IN
                 IF n = 0
                 THEN Walk[back]
                 ELSE IF AndHigh(n) # 0
                 THEN [stack |-> back, out |-> Some(AndNotHigh(n))]
                 ELSE LET entered == EnterUnchecked(next_heuristic, choice) IN
                      Walk[
                          Append(back, [node |-> n, h |-> entered,
                                        iter |-> Tail(top.iter)])]
            ELSE Walk[rest]
    IN Walk[from]

ExploreIterNextSharesState(ints, from) ==
    LET Walk[stack \in ExploreStacks] ==
            IF stack = <<>>
            THEN [stack |-> stack, out |-> None]
            ELSE
            LET top == stack[Len(stack)]
                rest == SubSeq(stack, 1, Len(stack) - 1)
            IN
            IF top.iter # <<>>
            THEN LET choice == Head(top.iter)
                     n == SlotOf(ints, top.node, choice)
                     back == Append(rest, [top EXCEPT !.iter = Tail(@)])
                 IN
                 IF n = 0
                 THEN Walk[back]
                 ELSE IF AndHigh(n) # 0
                 THEN [stack |-> back, out |-> Some(AndNotHigh(n))]
                 ELSE LET entered == EnterUnchecked(top.h, choice) IN
                      Walk[
                          Append(Append(rest, [top EXCEPT !.iter = Tail(@),
                                                          !.h = entered]),
                                 [node |-> n, h |-> entered,
                                  iter |-> IterUnchecked(entered)])]
            ELSE Walk[rest]
    IN Walk[from]

ExploreIterNext(ints, from) ==
    LET Walk[stack \in ExploreStacks] ==
            IF stack = <<>>
            THEN \* self.indices.pop()? gives None
                 [stack |-> stack, out |-> None]
            ELSE
            LET top == stack[Len(stack)]
                rest == SubSeq(stack, 1, Len(stack) - 1)
                next_heuristic == top.h
            IN
            IF top.iter # <<>>
            THEN LET choice == Head(top.iter)
                     n == SlotOf(ints, top.node, choice)
                     back == Append(rest, [top EXCEPT !.iter = Tail(@)])
                 IN
                 IF n = 0
                 THEN \* Empty node
                      Walk[back]
                 ELSE IF AndHigh(n) # 0
                 THEN \* Leaf node
                      [stack |-> back, out |-> Some(AndNotHigh(n))]
                 ELSE \* Internal node
                      LET entered == EnterUnchecked(next_heuristic, choice) IN
                      Walk[
                          Append(back, [node |-> n, h |-> entered,
                                        iter |-> IterUnchecked(entered)])]
            ELSE \* the candidates are used up: the entry is not pushed back
                 Walk[rest]
    IN Walk[from]

\* explore(heuristic)
ExploreCall(h) ==
    /\ pc = "idle"
    /\ pc' = "explore"
    /\ indices' = ExploreNew(h)
    /\ heur' = h
    /\ yielded' = <<>>
    /\ UNCHANGED <<internals, depth, item, key, index, i, ret, stored,
                   consistent, calls, kout, lk, addr, before>>

\* One call of next() on the iterator explore() returned.
ExploreNext ==
    /\ pc = "explore"
    /\ LET r == ExploreIterNext(internals, indices) IN
       /\ indices' = r.stack
       /\ ret' = Ret("next", FALSE, r.out)
       /\ yielded' = IF r.out.some THEN Append(yielded, r.out.val) ELSE yielded
    /\ UNCHANGED <<internals, depth, pc, item, key, index, i, heur, stored,
                   consistent, calls, kout, lk, addr, before>>

\* Every item a full run of the iterator returns, from `stack` on.
RECURSIVE ExploreRun(_, _)
ExploreRun(ints, stack) ==
    LET r == ExploreIterNext(ints, stack) IN
    IF r.out.some THEN <<r.out.val>> \o ExploreRun(ints, r.stack) ELSE <<>>

\* self.explore(h).collect() on the trie as it is.
Explore(h) == ExploreRun(internals, ExploreNew(h))

\* ------------------------------------------------------------- return
\* The caller takes the result of the finished call, or drops the iterator
\* it holds: the trie is idle again.
Return ==
    /\ pc \in {"ret", "items", "explore"}
    /\ pc' = "idle"
    /\ ret' = NoRet
    /\ item' = 0
    /\ key' = NoKey
    /\ index' = 0
    /\ i' = 0
    /\ indices' = <<>>
    /\ heur' = NoHeuristic
    /\ yielded' = <<>>
    /\ kout' = NoCall
    /\ lk' = NoCall
    /\ addr' = {}
    /\ before' = <<>>
    /\ UNCHANGED <<internals, depth, stored, consistent, calls>>

Next ==
    \/ /\ calls < MaxInserts
       /\ \E it \in ItemInputs : \E K \in Keys(depth) : InsertCall(it, K)
    \/ InsertLoop
    \/ InsertLast
    \/ GetCall
    \/ GetLoop
    \/ ItemsCall
    \/ ItemsNext
    \/ \E h \in HeuristicInputs : ExploreCall(h)
    \/ ExploreNext
    \/ Return

Spec == Init /\ [][Next]_vars

\* A caller that holds an iterator and goes on calling next() gets its
\* calls served: the iterators run in the caller's thread.
LiveSpec == Spec /\ WF_vars(ItemsNext) /\ WF_vars(ExploreNext)

\* ------------------------------------------------------------- contract
\* A step in which the callbacks keep the contract insert documents: key
\* and lookup return indices below 16 and lookup reproduces the group of the
\* stored item's key.
NoFault == kout' # Slots /\ lk' # Slots /\ consistent'

\* The callers that keep the contract: they insert proper items, and run
\* items() between the calls.
ContractNext ==
    \/ /\ calls < MaxContractInserts
       /\ \E it \in ProperItems : \E K \in Keys(depth) : InsertCall(it, K)
    \/ InsertLoop /\ NoFault
    \/ InsertLast /\ NoFault
    \/ ItemsCall
    \/ ItemsNext
    \/ Return

ContractSpec == Init /\ [][ContractNext]_vars

\* ------------------------------------------------------------- properties
StoredSet == BagToSet(stored)

\* An insert has just returned without a panic.
InsertReturned == pc = "ret" /\ ret.op = "insert" /\ ~ret.panic

\* The node and slot of the leaves holding item value v.
LeafPlaces(v) ==
    {<<n, p>> \in (0 .. (Len(internals) - 1)) \X SlotIx :
        SlotOf(internals, n, p) = OrHigh(v)}

\* C1 (round trip): when an insert of item x with key K returns, every lookup
\* so far having reproduced the stored keys and no item other than x being
\* stored under a key equal to K on all groups, get(K) is Some(x).
C1_RoundTrip ==
    (/\ InsertReturned
     /\ consistent
     /\ \A r \in StoredSet : r.key = key => r.item = item)
    => Get(key) = Some(item)

\* C1 witness: an insert that had to split a leaf has returned, and get with
\* its key gives its item.
C1_Witness ==
    /\ InsertReturned
    /\ consistent
    /\ Len(internals) > 1
    /\ BagCardinality(stored) = 2
    /\ [item |-> item, key |-> key] \in StoredSet
    /\ Get(key) = Some(item)

\* C2 (stored items stay): at any moment between the steps of later inserts
\* (lookups reproducing the stored keys), get with the key of every item that
\* was placed gives that item.
C2_StoredStay ==
    consistent => \A r \in StoredSet : Get(r.key) = Some(r.item)

\* C2 witness: an item placed in the root by an earlier insert now has its
\* leaf in a node allocated by a later collision, and get still finds it.
C2_Witness ==
    /\ InsertReturned
    /\ consistent
    /\ \E r \in StoredSet :
         /\ r.item # item
         /\ LeafPlaces(r.item) # {}
         /\ \A pl \in LeafPlaces(r.item) : pl[1] > 0
         /\ Get(r.key) = Some(r.item)

\* The keys K1 and K2 agree on the groups 0 .. n-1.
AgreeUpTo(K1, K2, n) == \A g \in 0 .. (n - 1) : K1[g] = K2[g]

\* C3 as stated (no partial matches): get with a key that agrees on all
\* groups with the key of no stored item returns None.
C3_NoPartialMatch ==
    (pc = "idle" /\ consistent) =>
        \A K \in Keys(depth) :
            (\A r \in StoredSet : r.key # K) => Get(K) = None

\* C3 amended: get(K) returns None, or a stored item whose key agrees with K
\* on every group get asked for (the groups down to the item's leaf); so it
\* returns None when no stored key agrees with K on the groups it asked for.
C3_NoneOrPrefixMatch ==
    (pc = "idle" /\ consistent) =>
        \A K \in Keys(depth) :
            LET res == Get(K) IN
            res.some =>
                \E r \in StoredSet :
                    r.item = res.val /\ AgreeUpTo(r.key, K, Consulted(K))

\* C3 witness: a get that went down at least one level has returned None
\* from a trie that holds items.
C3_Witness ==
    /\ pc = "ret"
    /\ ret = Ret("get", FALSE, None)
    /\ consistent
    /\ i >= 1
    /\ BagCardinality(stored) = 2

\* The items of a sequence, as a set.
Range(sq) == {sq[j] : j \in 1 .. Len(sq)}

\* C4 (saturation): when an insert of an item under a key equal on all groups
\* to the key of another, stored item has ended, the callbacks having
\* returned only proper groups, it has not panicked, get with the key gives
\* the stored item, and items() holds the stored item and not the new one.
C4_Saturation ==
    \A r \in StoredSet :
        (/\ pc = "ret"
         /\ ret.op = "insert"
         /\ consistent
         /\ ItemOk(item)
         /\ r.key = key
         /\ r.item # item
         /\ kout # Slots
         /\ lk # Slots)
        => /\ ~ret.panic
           /\ Get(key) = Some(r.item)
           /\ r.item \in Range(Items)
           /\ item \notin Range(Items)
           /\ [item |-> item, key |-> key] \notin StoredSet

\* C4 witness: the second of two inserts with one key has returned after
\* splitting down to the last group, and only the first item is found.
C4_Witness ==
    /\ InsertReturned
    /\ consistent
    /\ depth = MaxDepth
    /\ Len(internals) = depth
    /\ \E r \in StoredSet : r.key = key /\ r.item # item
                            /\ Get(key) = Some(r.item)
    /\ Items = <<1 - item>>

\* How often v occurs in a sequence.
SeqCount(sq, v) == Cardinality({j \in 1 .. Len(sq) : sq[j] = v})

\* How often item value v was placed by an insert.
RECURSIVE Copies(_, _)
Copies(S, v) ==
    IF S = {}
    THEN 0
    ELSE LET r == CHOOSE x \in S : TRUE IN
         (IF r.item = v THEN CopiesIn(r, stored) ELSE 0) + Copies(S \ {r}, v)

StoredCount(v) == Copies(StoredSet, v)

\* The iterator of items() or explore() has just returned None.
Exhausted(which) == pc = which /\ ret = Ret("next", FALSE, None)

\* C5 (enumeration completeness): when a run of items() ends, every item
\* value has been yielded as often as inserts placed it, and (lookups having
\* reproduced the stored keys) get finds every placed item under its key.
C5_EnumerationComplete ==
    Exhausted("items") =>
        /\ \A v \in ItemInputs \cup Range(yielded) :
               SeqCount(yielded, v) = StoredCount(v)
        /\ consistent => \A r \in StoredSet : Get(r.key) = Some(r.item)

\* C5 witness: a run of items() over a trie with a split has ended, having
\* yielded two items.
C5_Witness ==
    /\ Exhausted("items")
    /\ Len(yielded) = 2
    /\ Len(internals) > 1
    /\ BagCardinality(stored) = 2

\* The first group at which two different keys differ.
FirstDiff(K1, K2) ==
    CHOOSE g \in 0 .. (depth - 1) : K1[g] # K2[g] /\ AgreeUpTo(K1, K2, g)

\* Two inserts into the empty trie have placed two items, and both are back.
TwoPlaced ==
    /\ InsertReturned
    /\ consistent
    /\ calls = 2
    /\ BagCardinality(stored) = 2

\* C6 as stated (collision expansion): two items inserted into the empty
\* trie whose keys first differ at group g make the node count grow by g + 1.
C6_GrowsBySharedPlusOne ==
    TwoPlaced =>
        \A r1, r2 \in StoredSet :
            r1.key # r2.key =>
                Len(internals) - 1 = FirstDiff(r1.key, r2.key) + 1

\* C6 amended: the node count grows by exactly the number of leading groups
\* the two keys share, g.
C6_GrowsByShared ==
    TwoPlaced =>
        \A r1, r2 \in StoredSet :
            r1.key # r2.key => Len(internals) - 1 = FirstDiff(r1.key, r2.key)

\* C6 witness: the two keys share two leading groups and two nodes were
\* allocated.
C6_Witness ==
    /\ TwoPlaced
    /\ Len(internals) = 3
    /\ \E r1, r2 \in StoredSet :
          r1.key # r2.key /\ FirstDiff(r1.key, r2.key) = 2

\* The heuristic proposes every slot index, each once, at every node.
FullRange(h) ==
    /\ h.pred = SlotIx
    /\ Len(IterUnchecked(h)) = Slots
    /\ Range(IterUnchecked(h)) = SlotIx

\* C7 (pruning correctness): when a run of explore with a heuristic that
\* proposes the full range at every node ends, it has yielded every item
\* value as often as a full run of items() yields it.
C7_FullRangeIsItems ==
    (Exhausted("explore") /\ FullRange(heur)) =>
        \A v \in Range(yielded) \cup Range(Items) :
            SeqCount(yielded, v) = SeqCount(Items, v)

\* C7 witness: such a run has ended in an order other than that of items().
C7_Witness ==
    /\ Exhausted("explore")
    /\ FullRange(heur)
    /\ Len(yielded) = 2
    /\ yielded # Items

\* How many leaves with item value v lie in the subtree of node n on slot
\* paths made of the indices of cands only (cands: the indices still to go
\* through at node n, all: the indices allowed below).
RECURSIVE CountUnder(_, _, _, _, _)
CountUnder(ints, n, cands, all, v) ==
    IF cands = <<>>
    THEN 0
    ELSE LET m == SlotOf(ints, n, Head(cands))
             here == IF m = 0 THEN 0
                     ELSE IF AndHigh(m) # 0
                     THEN (IF AndNotHigh(m) = v THEN 1 ELSE 0)
                     ELSE CountUnder(ints, m, all, all, v)
         IN here + CountUnder(ints, n, Tail(cands), all, v)

OnPathsIn(P, v) ==
    CountUnder(internals, 0, FilterRange(P, 0), FilterRange(P, 0), v)

\* C8 (predicate adapter): when a run of explore(FnHeuristic(P)) ends, it has
\* yielded exactly the leaves whose whole slot path, leaf slot included, is
\* made of indices P holds for.
C8_PredicatePaths ==
    (Exhausted("explore") /\ heur.kind = "fn") =>
        \A v \in ItemInputs \cup Range(yielded) :
            SeqCount(yielded, v) = OnPathsIn(heur.pred, v)

\* C8 witness: a run with a predicate that holds for slot 0 only has ended,
\* having yielded one of two stored items and left out one below slot 0.
C8_Witness ==
    /\ Exhausted("explore")
    /\ heur = FnHeuristic({0})
    /\ Len(yielded) = 1
    /\ Len(Items) = 2
    /\ SlotOf(internals, 0, 0) \in 1 .. (Len(internals) - 1)
    /\ SlotOf(internals, 0, Slots - 1) = 0

\* C9 (validated entry points reject): an insert of an item with the top bit
\* set ends in a panic with the arena as it was and no callback called; a
\* step of insert or get in which key or lookup returns an index >= 16 ends
\* in a panic with the arena as it was, without addressing a slot with that
\* index; and no step addresses a slot with an index outside [0,16).
C9_Rejects ==
    [][/\ (pc = "idle" /\ calls' = calls + 1 /\ ~ItemOk(item')) =>
              /\ pc' = "ret"
              /\ ret' = Ret("insert", TRUE, None)
              /\ internals' = internals
              /\ kout' = NoCall /\ lk' = NoCall /\ addr' = {}
       /\ (pc \in {"loop", "last", "get"} /\ kout' >= Slots) =>
              /\ pc' = "ret"
              /\ ret'.panic
              /\ internals' = internals
              /\ lk' = NoCall
              /\ addr' = {}
       /\ (pc = "loop" /\ lk' >= Slots) =>
              /\ pc' = "ret"
              /\ ret'.panic
              /\ internals' = internals
              /\ lk' \notin addr'
       /\ addr' \subseteq SlotIx
      ]_vars

\* C9 witness: the second insert, having split the leaf of the first at an
\* earlier group, has panicked on key returning 16.
C9_Witness ==
    /\ pc = "ret"
    /\ ret = Ret("insert", TRUE, None)
    /\ kout = Slots
    /\ i >= 1
    /\ calls = 2
    /\ BagCardinality(stored) = 1
    /\ Len(internals) > 1

\* C10 (reference validity): every slot is empty, a leaf, or a reference r
\* with 0 < r < the length of the arena.
C10_RefsValid ==
    \A n \in 0 .. (Len(internals) - 1) : \A p \in SlotIx :
        LET m == SlotOf(internals, n, p) IN
        \/ m = 0
        \/ AndHigh(m) # 0
        \/ (0 < m /\ m < Len(internals))

\* C10 witness: the arena holds three nodes and a slot refers to the last.
C10_Witness ==
    /\ Len(internals) = 3
    /\ \E n \in 0 .. 2 : \E p \in SlotIx : SlotOf(internals, n, p) = 2

\* The indices of the nodes of an arena.
NodeIx(ints) == 0 .. (Len(ints) - 1)

\* A slot word that is neither empty nor a leaf refers to a node.
IsRef(m) == m # 0 /\ AndHigh(m) = 0

\* The slots of the arena that refer to node n, as <<node, slot>>.
Parents(ints, n) ==
    {ps \in NodeIx(ints) \X SlotIx :
        IsRef(SlotOf(ints, ps[1], ps[2])) /\ SlotOf(ints, ps[1], ps[2]) = n}

\* The nodes the slots of node n refer to.
Children(ints, n) ==
    IF n \in NodeIx(ints)
    THEN {SlotOf(ints, n, s) : s \in {t \in SlotIx : IsRef(SlotOf(ints, n, t))}}
    ELSE {}

\* The nodes reached from the nodes of S by following up to `fuel` references.
RECURSIVE Below(_, _, _)
Below(ints, S, fuel) ==
    IF fuel = 0
    THEN S
    ELSE Below(ints, S \cup UNION {Children(ints, n) : n \in S}, fuel - 1)

\* The nodes reached from node n by following one reference or more.
Descendants(ints, n) == Below(ints, Children(ints, n), Len(ints))

StrictTree(ints) ==
    /\ Parents(ints, 0) = {}
    /\ \A n \in NodeIx(ints) \ {0} : Cardinality(Parents(ints, n)) = 1
    /\ \A n \in NodeIx(ints) : n \notin Descendants(ints, n)
    /\ Below(ints, {0}, Len(ints)) = NodeIx(ints)

\* C11 (strict tree): in every state the root is referenced by no slot (a
\* slot word 0 is the empty slot, not a reference), every
\* other node is referenced by exactly one slot of the arena, following
\* references from a node never comes back to it, and every node is reached
\* from the root.
C11_StrictTree == StrictTree(internals)

\* C11 witness: two collision splits have made a chain root -> 1 -> 2.
C11_Witness ==
    /\ Len(internals) = 3
    /\ 1 \in Children(internals, 0)
    /\ 2 \in Children(internals, 1)
    /\ Descendants(internals, 0) = {1, 2}

\* The nodes k references away from the root (the root is at level 0).
RECURSIVE AtLevel(_, _)
AtLevel(ints, k) ==
    IF k = 0
    THEN {0}
    ELSE UNION {Children(ints, n) : n \in AtLevel(ints, k - 1)}

\* Every node lies at one of the levels 0 .. depth-1, and the nodes at level
\* depth-1 hold empty and leaf slots only.
LevelsBounded ==
    /\ NodeIx(internals) = UNION {AtLevel(internals, k) : k \in 0 .. (depth - 1)}
    /\ AtLevel(internals, depth) = {}
    /\ \A n \in AtLevel(internals, depth - 1) : \A s \in SlotIx :
           ~IsRef(SlotOf(internals, n, s))

\* The slots a step changes, as <<node, slot>>, among the nodes it keeps.
Changed ==
    {ps \in NodeIx(internals) \X SlotIx :
        SlotOf(internals', ps[1], ps[2]) # SlotOf(internals, ps[1], ps[2])}

\* C12 (no splitting past the depth): in every state every node lies at a
\* level <= depth-1 and the nodes at level depth-1 hold only empty and leaf
\* slots; the step of insert at the final group depth-1 allocates no node and
\* writes no slot but an empty one, with the item as a leaf.
C12_NoSplitPastDepth ==
    /\ []LevelsBounded
    /\ [][pc = "last" =>
            /\ Len(internals') = Len(internals)
            /\ \A ps \in Changed :
                  /\ SlotOf(internals, ps[1], ps[2]) = 0
                  /\ SlotOf(internals', ps[1], ps[2]) = OrHigh(item)
                  /\ ps = <<index, kout'>>
         ]_vars

\* C12 witness: the second insert split down to level depth-1 of the deepest
\* trie and was dropped at the final group, which was taken.
C12_Witness ==
    /\ InsertReturned
    /\ depth = MaxDepth
    /\ index \in AtLevel(internals, depth - 1)
    /\ calls = 2
    /\ BagCardinality(stored) = 1
    /\ AndHigh(SlotOf(internals, index, kout)) # 0
    /\ SlotOf(internals, index, kout) # OrHigh(item)

\* The number of leaf slots of an arena.
LeafCount(ints) ==
    Cardinality({ps \in NodeIx(ints) \X SlotIx :
                    AndHigh(SlotOf(ints, ps[1], ps[2])) # 0})

\* get(K) on the trie as it was when the running insert was called.
GetBefore(K) == GetFrom(before, depth, K, 0, 0)

\* An insert under a key equal at every group to the key of a stored item
\* has returned, and the item was dropped: no leaf was added.
DuplicateDropped ==
    /\ InsertReturned
    /\ consistent
    /\ \E r \in StoredSet : r.key = key
    /\ LeafCount(internals) = LeafCount(before)

\* C13 as stated (a dropped duplicate changes no lookup): after the call,
\* get gives for every key function what it gave before the call.
C13_NoLookupChange ==
    DuplicateDropped => \A K \in Keys(depth) : Get(K) = GetBefore(K)

\* C13 amended: after the call, get with the key of every stored item gives
\* what it gave before, items() yields what it yielded before, and get with
\* any other key function K gives what it gave before or, where it gave the
\* stored item the duplicate collided with although K is not that item's
\* key, None.
C13_StoredLookupsKept ==
    DuplicateDropped =>
        /\ \A r \in StoredSet : Get(r.key) = GetBefore(r.key)
        /\ Items = IterRun(before, IterNew)
        /\ \A K \in Keys(depth) :
              \/ Get(K) = GetBefore(K)
              \/ /\ Get(K) = None
                 /\ \E r \in StoredSet :
                       r.key = key /\ K # key /\ GetBefore(K) = Some(r.item)

\* C13 witness: the dropped duplicate has pushed the stored item two levels
\* down, and a key function that used to find it no longer does.
C13_Witness ==
    /\ DuplicateDropped
    /\ Len(internals) = Len(before) + 2
    /\ \E K \in Keys(depth) : GetBefore(K).some /\ Get(K) = None
    /\ \E r \in StoredSet : r.item # item /\ Get(key) = Some(r.item)

\* The empty slot the descent of insert with key function K reaches in the
\* arena `ints` through references only, as {<<node, slot>>}; {} when the
\* descent meets a leaf first.
RECURSIVE EmptyOnPath(_, _, _, _, _)
EmptyOnPath(ints, d, K, idx, g) ==
    IF g >= d
    THEN {}
    ELSE LET m == SlotOf(ints, idx, K[g]) IN
         IF m = 0
         THEN {<<idx, K[g]>>}
         ELSE IF AndHigh(m) # 0
         THEN {}
         ELSE EmptyOnPath(ints, d, K, m, g + 1)

\* C14 (empty-slot insert): when an insert whose descent reaches an empty
\* slot without meeting a leaf returns, the arena is the arena of before the
\* call with that one slot set to the item as a leaf: same length, every
\* other slot of every node as it was.
C14_OneSlotChanged ==
    InsertReturned =>
        \A ps \in EmptyOnPath(before, depth, key, 0, 0) :
            internals = [before EXCEPT ![ps[1] + 1][ps[2]] = OrHigh(item)]

\* C14 witness: the descent went through a reference of the root and placed
\* the item in an empty slot of the node below.
C14_Witness ==
    /\ InsertReturned
    /\ \E ps \in EmptyOnPath(before, depth, key, 0, 0) :
          /\ ps[1] > 0
          /\ SlotOf(before, ps[1], ps[2]) = 0
          /\ SlotOf(internals, ps[1], ps[2]) = OrHigh(item)
    /\ Len(internals) = Len(before)
    /\ LeafCount(internals) = 3

\* The step is an iteration of the loop of insert (a group below depth-1)
\* that meets a leaf and resolves the collision: lookup returns an index
\* below 16 and the new index fits a slot word.
ResolvesCollision ==
    /\ pc = "loop"
    /\ MeetsLeaf(internals, index, kout')
    /\ Checked(lk')
    /\ AndHigh(Len(internals)) = 0

\* C15 (append-only arena): in every step the arena does not get shorter,
\* every node it held keeps its index and all its slots but the one the step
\* wrote, and the length grows by exactly one in a step of insert that
\* resolves a leaf collision at a group below depth-1 and by nothing in any
\* other step (among them the steps that abort on a callback's output).
C15_AppendOnly ==
    [][/\ Len(internals') >= Len(internals)
       /\ Changed \subseteq {<<index, kout'>>}
       /\ Len(internals') =
             Len(internals) + (IF ResolvesCollision THEN 1 ELSE 0)
      ]_vars

\* C15 witness: one insert has resolved two collisions, at groups 0 and 1,
\* and the arena is two nodes longer than when it was called.
C15_Witness ==
    /\ pc = "last"
    /\ i = 2
    /\ Len(before) = 1
    /\ Len(internals) = 3
    /\ \E s \in SlotIx : SlotOf(before, 0, s) # SlotOf(internals, 0, s)

\* The slot path from the root to node n: the slots of the references that
\* lead to it.
RECURSIVE PathOfNode(_, _)
PathOfNode(ints, n) ==
    IF n = 0
    THEN <<>>
    ELSE LET ps == CHOOSE x \in Parents(ints, n) : TRUE IN
         Append(PathOfNode(ints, ps[1]), ps[2])

\* The slot path from the root to the leaf of item value v.
LeafPath(v) ==
    LET pl == CHOOSE x \in LeafPlaces(v) : TRUE IN
    Append(PathOfNode(internals, pl[1]), pl[2])

\* Path a comes before path b in lexicographic order.
LexLess(a, b) ==
    \E j \in 1 .. Len(a) :
        /\ j <= Len(b)
        /\ a[j] < b[j]
        /\ \A k \in 1 .. (j - 1) : a[k] = b[k]

\* C16 (enumeration order): what a run of items() has yielded so far is in
\* strictly ascending lexicographic order of the slot paths of the leaves,
\* and when the run ends it has yielded every leaf.
C16_AscendingPaths ==
    pc = "items" =>
        /\ \A j, k \in 1 .. Len(yielded) :
               j < k => LexLess(LeafPath(yielded[j]), LeafPath(yielded[k]))
        /\ Exhausted("items") => Len(yielded) = LeafCount(internals)

\* C16 witness: a run has ended having yielded the two leaves of the node
\* below a slot of the root before the leaf in a later slot of the root.
C16_Witness ==
    /\ Exhausted("items")
    /\ Len(yielded) = 3
    /\ Len(LeafPath(yielded[1])) = 2
    /\ Len(LeafPath(yielded[2])) = 2
    /\ Len(LeafPath(yielded[3])) = 1

\* The heuristic state h after enter(c1), ..., enter(ck) for the path
\* <<c1, ..., ck>>.
RECURSIVE EnterAll(_, _)
EnterAll(h, path) ==
    IF path = <<>>
    THEN h
    ELSE EnterAll(EnterUnchecked(h, Head(path)), Tail(path))

\* Sequence a is what is left of sequence b after some of its first items.
IsSuffix(a, b) ==
    Len(a) <= Len(b) /\ a = SubSeq(b, Len(b) - Len(a) + 1, Len(b))

\* C17 (per-branch heuristic state): after every next() of a run of explore,
\* the heuristic state of every entry of the traversal stack is the state
\* explore was called with, entered with the slots of that node's path from
\* the root, and the entry's candidates are what is left of the candidates
\* of that state; so the entries of the parents have kept their state
\* through the descent.
C17_StatePerBranch ==
    pc = "explore" =>
        \A j \in 1 .. Len(indices) :
            LET e == indices[j] IN
            /\ e.h = EnterAll(heur, PathOfNode(internals, e.node))
            /\ IsSuffix(e.iter, IterUnchecked(e.h))

\* C17 witness: a run with the path-recording heuristic has descended two
\* levels: the stack holds the root with the state it started with, and
\* below it the two nodes with the states of their paths.
C17_Witness ==
    /\ pc = "explore"
    /\ heur = TraceHeuristic
    /\ Len(indices) = 3
    /\ indices[1].h.path = <<>>
    /\ Len(indices[2].h.path) = 1
    /\ Len(indices[3].h.path) = 2
    /\ indices[3].h.path = PathOfNode(internals, indices[3].node)
    /\ ret.out.some

\* Once the iterator `which` has returned None, a further next() returns
\* None again, with the traversal stack empty and nothing more yielded.
StaysExhausted(which) ==
    (Exhausted(which) /\ pc' = pc) =>
        /\ ret' = ret
        /\ indices = <<>>
        /\ indices' = <<>>
        /\ yielded' = yielded

\* C18 (finite single-pass sequences): a caller that goes on calling next()
\* on the iterator of items(), or of explore() with a heuristic of finite
\* candidate sequences, gets None after finitely many calls (unless it
\* drops the iterator first); and from then on next() returns None with the
\* traversal stack empty.
C18_FiniteSinglePass ==
    /\ (pc = "items") ~> (Exhausted("items") \/ pc # "items")
    /\ (pc = "explore") ~> (Exhausted("explore") \/ pc # "explore")
    /\ [][StaysExhausted("items") /\ StaysExhausted("explore")]_vars

\* C18 witness: a run of explore with the path-recording heuristic over two
\* leaves has returned None and left the stack empty.
C18_Witness ==
    /\ Exhausted("explore")
    /\ heur = TraceHeuristic
    /\ indices = <<>>
    /\ Len(yielded) = 2
    /\ Len(internals) = MaxDepth

\* The item values stored, and the key each was stored under.
StoredItems == {r.item : r \in StoredSet}

KeyOf == [v \in StoredItems |-> (CHOOSE r \in StoredSet : r.item = v).key]

\* The orders a set can be put in.
Orders(S) ==
    {sq \in [1 .. Cardinality(S) -> S] :
        \A j, k \in 1 .. Cardinality(S) : j # k => sq[j] # sq[k]}

\* Every insert so far has placed its item: the keys of the inserted items
\* are pairwise different within the groups 0 .. depth-1, and no call
\* aborted.
AllPlaced ==
    /\ pc = "idle"
    /\ consistent
    /\ calls = BagCardinality(stored)
    /\ calls = Cardinality(StoredItems)

\* C19 (insertion-order independence): for items of pairwise different keys
\* inserted with a lookup that reproduces the keys, inserting them into a
\* new trie in any order gives what the order taken gave: the same sequence
\* from items(), the same result of get for every key function and the same
\* number of nodes.
C19_OrderIndependent ==
    AllPlaced =>
        \A sq \in Orders(StoredItems) :
            LET other == InsertAll(<<EmptyNode>>, depth, sq, KeyOf) IN
            /\ IterRun(other, IterNew) = Items
            /\ \A K \in Keys(depth) : GetFrom(other, depth, K, 0, 0) = Get(K)
            /\ Len(other) = Len(internals)

\* C19 witness: three items were placed, two of them below two collision
\* splits, and each of the six orders gives the items() of the order taken.
C19_Witness ==
    /\ AllPlaced
    /\ calls = 3
    /\ Len(internals) = 3
    /\ Len(Items) = 3
    /\ Cardinality(Orders(StoredItems)) = 6
    /\ \A sq \in Orders(StoredItems) :
          IterRun(InsertAll(<<EmptyNode>>, depth, sq, KeyOf), IterNew) = Items

\* The number of leaf slots of an arena that hold item value v.
LeavesOf(ints, v) ==
    Cardinality({ps \in NodeIx(ints) \X SlotIx :
                    SlotOf(ints, ps[1], ps[2]) = OrHigh(v)})

\* A validated insert has aborted on the output of a callback after earlier
\* groups of the same call had split leaves; the lookups whose output was
\* used reproduced the stored keys.
AbortedAfterSplit ==
    /\ pc = "ret"
    /\ ret = Ret("insert", TRUE, None)
    /\ Slots \in {kout, lk}
    /\ Len(internals) > Len(before)
    /\ consistent

\* C20 (abort mid-insert): the arena such an aborted insert leaves behind
\* has only valid references and the shape of a strict tree, get with the
\* key of every stored item gives that item, and the item of the aborted
\* call was not stored: the leaves are, value by value, those of before the
\* call, and items() yields what it yielded before.
C20_AbortKeepsTrie ==
    AbortedAfterSplit =>
        /\ \A n \in NodeIx(internals) : \A p \in SlotIx :
              IsRef(SlotOf(internals, n, p)) =>
                  SlotOf(internals, n, p) \in NodeIx(internals) \ {0}
        /\ StrictTree(internals)
        /\ \A r \in StoredSet : Get(r.key) = Some(r.item)
        /\ \A v \in ItemInputs : LeavesOf(internals, v) = LeavesOf(before, v)
        /\ LeafCount(internals) = BagCardinality(stored)
        /\ Items = IterRun(before, IterNew)

\* C20 witness: the call split the stored leaf at group 0, met it again at
\* group 1, and aborted there on lookup returning 16.
C20_Witness ==
    /\ AbortedAfterSplit
    /\ lk = Slots
    /\ i = 1
    /\ Len(internals) = Len(before) + 1
    /\ \E r \in StoredSet : r.item # item /\ Get(r.key) = Some(r.item)

====
